---- MODULE Spec2Model ----
(***************************************************************************)
(* Model of src/src/index.ts: the letter-spawning animation.  The file     *)
(* holds two definitions of initAnimation (lines 9-340 and 352-645); the   *)
(* variable `version` says which of the two is running.                    *)
(*                                                                         *)
(* Positions are exact rationals kept as integers over the common          *)
(* denominator Scale = 5 * RandDenom: a draw of Math.random() is           *)
(* n / RandDenom for n in 0 .. RandDenom-1, and 0.6 is 3/5.                *)
(***************************************************************************)
EXTENDS Integers, Sequences, FiniteSets, TLC

\* ------------------------------------------------------------------ bounds
ViewportWidth == 250
RandDenom == 2
MaxLetters == 2
MaxResizes == 2
MaxScrollY == 2
MaxScrollEvents == 2
MaxWheelEvents == 3
MaxClock == 600
MaxWidthSteps == 3
ClockStep == 100

\* ------------------------------------------------------- program constants
TotalLetters == 200
gridSize == 75
maxHeightAboveViewport == 50
maxAttempts1 == 25
maxAttempts2 == 100
startXMargin1 == 40
startXMargin2 == 0
baseY1 == -100
baseY2 == -20
spawnInterval1 == 25
spawnInterval2 == 50
restoreDelay == 200
\* 0.0005 and 0.00005 in units of 1/100000
forceFactor1 == 50
forceFactor2 == 5

svgPaths == <<"T", "R", "Y">>
Paths == {svgPaths[i] : i \in 1..Len(svgPaths)}
Versions == {1, 2}
\* the calls of loadAllSvgs: one in the first definition, two in the second
Loads(v) == IF v = 1 THEN {1} ELSE {1, 2}

Scale == 5 * RandDenom
Draws == 0 .. (RandDenom - 1)

VARIABLES
  version,            \* which definition of initAnimation runs
  innerWidth,         \* window.innerWidth
  fetchState,         \* per load and path: "pending", "ok", "empty", "notok"
  loadState,          \* per load: the promise of loadAllSvgs()
  spawnCalled,        \* per load: its then-callback has called spawnLetters
  loadedVertexSets,   \* sequence of records [path, paths]
  lettersSpawned,
  intervalState,      \* "none", "active", "cleared"
  intervalsCreated,   \* number of setInterval calls so far
  spawnInterval,      \* the delay given to setInterval (-1: none yet, 0: undefined)
  viewportWidth,      \* spawnLetters' const, read from window.innerWidth
  occupiedGridCells,
  lettersSpawnedCount,
  world,              \* Composite.allBodies(engine.world)
  returnedGridCells,  \* cells of the positions the grid branch has returned
  gridRepeat,         \* a grid-branch return fell in a cell of an earlier grid-branch return
  cellRepeat,         \* some return fell in a cell of an earlier grid-branch return
  lastTick,           \* what the latest spawnLetter call did
  ground, leftWall, rightWall, topBox,   \* createBoundaries' variables
  boundaryCalls,      \* number of createBoundaries calls so far
  scrollY,            \* window.scrollY
  previousScrollY,
  lastScroll,         \* window.scrollY before and after the latest scroll event
  forces,             \* per body: the forces the latest scroll event applied to it
  pointerEvents,      \* render.canvas.style.pointerEvents
  scrollTimeout,      \* the id handleScroll keeps (0: undefined)
  timeouts,           \* the pending timeouts: records [id, due]
  nextTimerId,
  now,                \* the clock, in ms
  lastWheelAt,        \* when the latest wheel event was handled (-1: never)
  returnedPosition    \* what the latest observed call of getUniquePosition returned

loadVars == <<fetchState, loadState, loadedVertexSets>>
startVars == <<spawnCalled, lettersSpawned, intervalsCreated, spawnInterval, viewportWidth>>
tickVars == <<intervalState, occupiedGridCells, lettersSpawnedCount,
              returnedGridCells, gridRepeat, cellRepeat, lastTick>>
boundaryVars == <<ground, leftWall, rightWall, topBox, boundaryCalls>>

scrollVars == <<scrollY, previousScrollY, lastScroll, forces>>
wheelVars == <<pointerEvents, scrollTimeout, timeouts, nextTimerId, now, lastWheelAt>>

vars == <<version, returnedPosition, innerWidth, loadVars, startVars, tickVars, world, boundaryVars,
          scrollVars, wheelVars>>

\* ------------------------------------------------- spawnLetters' constants
maxAttempts(v) == IF v = 1 THEN maxAttempts1 ELSE maxAttempts2
startXMargin(v) == IF v = 1 THEN startXMargin1 ELSE startXMargin2
baseY(v) == IF v = 1 THEN baseY1 ELSE baseY2

\* spawnAreaWidth = viewportWidth * 0.6, times 5
spawnAreaWidth5(w) == 3 * w
\* startX = viewportWidth - spawnAreaWidth [- 40], times Scale
startX(v, w) == (5 * w - spawnAreaWidth5(w) - 5 * startXMargin(v)) * RandDenom

\* the grid branch's candidate for the draws nx, ny
GridPosition(v, w, nx, ny) ==
  [x |-> startX(v, w)
           + ((nx * spawnAreaWidth5(w)) \div (5 * RandDenom * gridSize)) * gridSize * Scale,
   y |-> baseY(v) * Scale
           + ((ny * maxHeightAboveViewport) \div (RandDenom * gridSize)) * gridSize * Scale]

\* the default position for the draws nx, ny
DefaultPosition(v, w, nx, ny) ==
  [x |-> startX(v, w) + nx * spawnAreaWidth5(w),
   y |-> baseY(v) * Scale + ny * maxHeightAboveViewport * 5]

\* gridKey: (floor(x / gridSize), floor(y / gridSize))
GridKey(pos) ==
  [cx |-> pos.x \div (gridSize * Scale), cy |-> pos.y \div (gridSize * Scale)]

\* ------------------------------------------------------ getUniquePosition
\* the cell is not recorded
AddGridKeyForgotten(occ, key) == occ

\* occupiedGridCells.add(gridKey)
AddGridKey(occ, key) == occ \cup {key}

\* What getUniquePosition can return from the occupied cells occ, over every
\* outcome of the draws.  Every attempt of its while loop draws a candidate
\* from the same set against the same occ (occ changes only on return), so the
\* loop returns a free candidate, adding its cell, when some attempt draws one,
\* and the default position, adding no cell, when each of the maxAttempts
\* attempts draws an occupied one.
GetUniquePosition(v, w, occ) ==
  LET cands == {GridPosition(v, w, nx, ny) : nx \in Draws, ny \in Draws}
      free == {p \in cands : GridKey(p) \notin occ}
  IN  (IF maxAttempts(v) > 0
       THEN {[pos |-> p, grid |-> TRUE, occ |-> AddGridKey(occ, GridKey(p))] : p \in free}
       ELSE {})
      \cup
      (IF free # cands \/ maxAttempts(v) = 0
       THEN {[pos |-> DefaultPosition(v, w, nx, ny), grid |-> FALSE, occ |-> occ] :
               nx \in Draws, ny \in Draws}
       ELSE {})

\* The cells and flags after one call that returned o, from the state s =
\* [occ, ret, gridRep, cellRep] before it.
AfterCall(s, o) ==
  LET key == GridKey(o.pos)
  IN  [occ |-> o.occ,
       ret |-> IF o.grid THEN s.ret \cup {key} ELSE s.ret,
       gridRep |-> s.gridRep \/ (o.grid /\ key \in s.ret),
       cellRep |-> s.cellRep \/ key \in s.ret]

CallFrom(v, w, S) ==
  UNION {{AfterCall(s, o) : o \in GetUniquePosition(v, w, s.occ)} : s \in S}

\* ------------------------------------------------------------ the world
Body(kind, id) == [kind |-> kind, id |-> id]
Undefined == Body("undefined", 0)
BoundaryKinds == {"ground", "leftWall", "rightWall", "topBox"}
Letters(bodies) == {b \in bodies : b.kind = "letter"}
Boundaries(bodies) == {b \in bodies : b.kind \in BoundaryKinds}
NewLetter(bodies) == Body("letter", 1 + Cardinality(Letters(bodies)))

\* doesOverlap: true iff Collision.collides reports a collision with some body
\* of the world; what it reports is the physics library's to decide.
DoesOverlap(bodies) == IF bodies = {} THEN {FALSE} ELSE {TRUE, FALSE}

\* no call of getUniquePosition observed yet
NoPosition == [x |-> 0, y |-> 0, branch |-> "none"]

\* ----------------------------------------------------- createBoundaries
\* the old boundaries are left in the world
RemoveBoundariesSkipped(bodies, old) == bodies

\* if (ground) Composite.remove(engine.world, [ground, leftWall, rightWall, topBox])
RemoveBoundaries(bodies, old) == bodies \ old

CreateBoundaries ==
  LET n == boundaryCalls + 1
      old == IF ground # Undefined THEN {ground, leftWall, rightWall, topBox} ELSE {}
  IN  /\ boundaryCalls' = n
      /\ ground' = Body("ground", n)
      /\ leftWall' = Body("leftWall", n)
      /\ rightWall' = Body("rightWall", n)
      /\ topBox' = Body("topBox", n)
      /\ world' = RemoveBoundaries(world, old)
                    \cup {Body(k, n) : k \in BoundaryKinds}

\* ------------------------------------------------------------------ Init
\* The state when initAnimation returns: createBoundaries has run once, the
\* fetches of every loadAllSvgs call are pending and no promise has settled.
Init ==
  /\ version \in Versions
  /\ innerWidth = ViewportWidth
  /\ fetchState = [l \in Loads(version) |-> [p \in Paths |-> "pending"]]
  /\ loadState = [l \in Loads(version) |-> "pending"]
  /\ spawnCalled = [l \in Loads(version) |-> FALSE]
  /\ loadedVertexSets = <<>>
  /\ lettersSpawned = FALSE
  /\ intervalState = "none"
  /\ intervalsCreated = 0
  /\ spawnInterval = -1
  /\ viewportWidth = 0
  /\ occupiedGridCells = {}
  /\ lettersSpawnedCount = 0
  /\ returnedGridCells = {}
  /\ gridRepeat = FALSE
  /\ cellRepeat = FALSE
  /\ lastTick = [result |-> "none", overlap |-> "unchecked"]
  /\ boundaryCalls = 1
  /\ ground = Body("ground", 1)
  /\ leftWall = Body("leftWall", 1)
  /\ rightWall = Body("rightWall", 1)
  /\ topBox = Body("topBox", 1)
  /\ world = {Body(k, 1) : k \in BoundaryKinds}
  /\ scrollY = 0
  /\ previousScrollY = 0
  /\ lastScroll = [from |-> 0, to |-> 0, events |-> 0]
  /\ forces = [b \in {} |-> <<>>]
  /\ pointerEvents = ""
  /\ scrollTimeout = 0
  /\ timeouts = {}
  /\ nextTimerId = 1
  /\ now = 0
  /\ lastWheelAt = -1
  /\ returnedPosition = NoPosition

\* ---------------------------------------------------------- spawnLetters
\* the flag is not consulted
AlreadySpawnedIgnored(flag) == FALSE

\* if (lettersSpawned) return;
AlreadySpawned(flag) == flag

\* spawnLetters(totalLetters, spawnInterval), called by the then-callback of
\* load l: one interval is created, its closure's variables are set.
SpawnLetters(l, interval) ==
  /\ spawnCalled' = [spawnCalled EXCEPT ![l] = TRUE]
  /\ IF AlreadySpawned(lettersSpawned)
     THEN UNCHANGED <<lettersSpawned, intervalsCreated, spawnInterval, viewportWidth, tickVars>>
     ELSE /\ lettersSpawned' = TRUE
          /\ viewportWidth' = innerWidth
          /\ occupiedGridCells' = {}
          /\ lettersSpawnedCount' = 0
          /\ returnedGridCells' = {}
          /\ gridRepeat' = FALSE
          /\ cellRepeat' = FALSE
          /\ intervalState' = "active"
          /\ intervalsCreated' = intervalsCreated + 1
          /\ spawnInterval' = interval
          /\ UNCHANGED lastTick

\* ---------------------------------------------------- loadSvg, loadAllSvgs
\* How a fetch can settle: "ok" (an SVG with paths), "empty" (an SVG without a
\* path element), "notok" (response.ok is false).  The second definition is
\* run on SVGs that have paths.
Outcomes(v) == IF v = 1 THEN {"ok", "empty", "notok"} ELSE {"ok", "notok"}
\* response.ok is not checked
ResponseRejectedNever(out) == FALSE

\* if (!response.ok) throw
ResponseRejected(out) == out = "notok"
AllResolved(fs) == \A p \in Paths : fs[p] \in {"ok", "empty"}

\* First definition: the fetch of path p settles with `out`; the async callback
\* pushes the vertex sets when there are some; Promise.all rejects on the first
\* rejection and fulfils when the three callbacks are done, and then the
\* then-callback calls spawnLetters(200, 25).
LoadSvg1(p, out) ==
  /\ version = 1
  /\ fetchState[1][p] = "pending"
  /\ LET fs == [fetchState[1] EXCEPT ![p] = out]
     IN  /\ fetchState' = [fetchState EXCEPT ![1] = fs]
         /\ loadedVertexSets' =
              IF out = "ok" THEN Append(loadedVertexSets, [path |-> p, valid |-> TRUE])
              ELSE loadedVertexSets
         /\ IF ResponseRejected(out)
            THEN /\ loadState' = [loadState EXCEPT ![1] = "rejected"]
                 /\ UNCHANGED <<startVars, tickVars>>
            ELSE IF AllResolved(fs) /\ loadState[1] = "pending"
            THEN /\ loadState' = [loadState EXCEPT ![1] = "fulfilled"]
                 /\ SpawnLetters(1, spawnInterval1)
            ELSE UNCHANGED <<loadState, startVars, tickVars>>
  /\ UNCHANGED <<version, returnedPosition, innerWidth, world, boundaryVars, scrollVars, wheelVars>>

\* the interval argument of the two calls of the second definition
SpawnIntervalOf(l) == IF l = 1 THEN spawnInterval2 ELSE 0

\* Second definition: Promise.all(svgPaths.map(loadSvg)) of load l takes the
\* result of path p; on the first rejection it rejects and takes no more; when
\* it has the three roots it pushes their vertex sets in the order of svgPaths,
\* and then the then-callback calls spawnLetters.
LoadSvg2(l, p, out) ==
  /\ version = 2
  /\ l \in Loads(2)
  /\ loadState[l] = "pending"
  /\ fetchState[l][p] = "pending"
  /\ LET fs == [fetchState[l] EXCEPT ![p] = out]
     IN  /\ fetchState' = [fetchState EXCEPT ![l] = fs]
         /\ IF ResponseRejected(out)
            THEN /\ loadState' = [loadState EXCEPT ![l] = "rejected"]
                 /\ UNCHANGED <<loadedVertexSets, startVars, tickVars>>
            ELSE IF AllResolved(fs)
            THEN /\ loadState' = [loadState EXCEPT ![l] = "fulfilled"]
                 /\ loadedVertexSets' = loadedVertexSets \o
                      [i \in 1..Len(svgPaths) |->
                         [path |-> svgPaths[i], valid |-> fs[svgPaths[i]] = "ok"]]
                 /\ SpawnLetters(l, SpawnIntervalOf(l))
            ELSE UNCHANGED <<loadState, loadedVertexSets, startVars, tickVars>>
  /\ UNCHANGED <<version, returnedPosition, innerWidth, world, boundaryVars, scrollVars, wheelVars>>

\* ------------------------------------------------------------ spawnLetter
\* the count is not raised
NextCountStuck(c) == c
\* the body is added whether a position was found or not
ShouldAddAlways(positionFound) == TRUE

\* lettersSpawnedCount++
NextCount(c) == c + 1
\* if (lettersSpawnedCount >= totalLetters) clearInterval(spawnIntervalId)
IntervalAfter(c) == IF c >= TotalLetters THEN "cleared" ELSE "active"
\* if (positionFound) Composite.add(world, newLetterBody)
ShouldAdd(positionFound) == positionFound

\* The for loop of the first definition's spawnLetter.  S holds the states
\* [occ, ret, gridRep, cellRep] the loop can be in at the head of iteration i
\* with positionFound false; each iteration calls getUniquePosition and then
\* doesOverlap, whose possible verdicts are `overlaps`.  When an iteration
\* leaves S as it is, so does every later one, and the loop's results are
\* those of this iteration and of running out of iterations from S.
RECURSIVE SpawnLoop(_, _, _, _, _)
SpawnLoop(v, w, S, i, overlaps) ==
  IF i < maxAttempts(v)
  THEN LET after == CallFrom(v, w, S)
           again == IF TRUE \in overlaps THEN after ELSE {}
       IN  {[s |-> s, positionFound |-> TRUE] :
              s \in IF FALSE \in overlaps THEN after ELSE {}}
           \cup (IF again = S
                 THEN {[s |-> s, positionFound |-> FALSE] : s \in S}
                 ELSE SpawnLoop(v, w, again, i + 1, overlaps))
  ELSE {[s |-> s, positionFound |-> FALSE] : s \in S}

LoopState == [occ |-> occupiedGridCells, ret |-> returnedGridCells,
              gridRep |-> gridRepeat, cellRep |-> cellRepeat]

SetLoopState(s) ==
  /\ occupiedGridCells' = s.occ
  /\ returnedGridCells' = s.ret
  /\ gridRepeat' = s.gridRep
  /\ cellRepeat' = s.cellRep

\* One firing of the interval, first definition (lines 152-199).  With no
\* vertex sets loaded, vertexSets is undefined and Bodies.fromVertices throws
\* in the first iteration, after getUniquePosition has returned.
SpawnLetter1 ==
  /\ version = 1
  /\ intervalState = "active"
  /\ IF lettersSpawnedCount >= TotalLetters
     THEN UNCHANGED <<tickVars, world>>
     ELSE IF loadedVertexSets = <<>>
     THEN /\ \E s \in CallFrom(1, viewportWidth, {LoopState}) : SetLoopState(s)
          /\ lastTick' = [result |-> "threw", overlap |-> "unchecked"]
          /\ UNCHANGED <<intervalState, lettersSpawnedCount, world>>
     ELSE \E o \in SpawnLoop(1, viewportWidth, {LoopState}, 0, DoesOverlap(world)) :
            /\ SetLoopState(o.s)
            /\ IF ShouldAdd(o.positionFound)
               THEN /\ world' = world \cup {NewLetter(world)}
                    /\ lettersSpawnedCount' = NextCount(lettersSpawnedCount)
               ELSE UNCHANGED <<world, lettersSpawnedCount>>
            /\ lastTick' = [result |-> IF ShouldAdd(o.positionFound) THEN "added" ELSE "skipped",
                            overlap |-> IF o.positionFound THEN "free" ELSE "collides"]
            /\ intervalState' = IntervalAfter(lettersSpawnedCount')
  /\ UNCHANGED <<version, returnedPosition, innerWidth, loadVars, startVars, boundaryVars, scrollVars, wheelVars>>

\* One firing of the interval, second definition (lines 476-508): one call of
\* getUniquePosition and the body is added unchecked.  For an SVG without a
\* path the vertex sets are [], and whether Bodies.fromVertices then throws or
\* returns a body is the library's to decide.
SpawnLetter2 ==
  /\ version = 2
  /\ intervalState = "active"
  /\ IF lettersSpawnedCount >= TotalLetters
     THEN UNCHANGED <<tickVars, world>>
     ELSE \E randomIndex \in 1..Len(loadedVertexSets), threw \in BOOLEAN :
            /\ threw => ~loadedVertexSets[randomIndex].valid
            /\ \E s \in CallFrom(2, viewportWidth, {LoopState}) : SetLoopState(s)
            /\ IF threw
               THEN /\ lastTick' = [result |-> "threw", overlap |-> "unchecked"]
                    /\ UNCHANGED <<intervalState, lettersSpawnedCount, world>>
               ELSE /\ world' = world \cup {NewLetter(world)}
                    /\ lettersSpawnedCount' = NextCount(lettersSpawnedCount)
                    /\ lastTick' = [result |-> "added", overlap |-> "unchecked"]
                    /\ intervalState' = IntervalAfter(lettersSpawnedCount')
  /\ UNCHANGED <<version, returnedPosition, innerWidth, loadVars, startVars, boundaryVars, scrollVars, wheelVars>>

\* ----------------------------------------------------------------- resize
Widths == {ViewportWidth, 2 * ViewportWidth}

\* The resize listener (lines 332-338, 637-643): the canvas takes the new
\* size and createBoundaries runs.
Resize(w) ==
  /\ boundaryCalls <= MaxResizes
  /\ innerWidth' = w
  /\ CreateBoundaries
  /\ UNCHANGED <<version, returnedPosition, loadVars, startVars, tickVars, scrollVars, wheelVars>>

\* ----------------------------------------------------- pushLettersUpwards
Force(x, y) == [x |-> x, y |-> y]
\* Matter.Body.applyForce(body, body.position, force) on every body
ApplyToAll(fs, force) == [b \in DOMAIN fs |-> Append(fs[b], force)]
\* previousScrollY is not updated
PreviousAfterStale(prev, currentScrollY) == prev

\* previousScrollY = currentScrollY
PreviousAfter(prev, currentScrollY) == currentScrollY

\* pushLettersUpwards of the first definition (lines 305-318), from
\* st = [prev, forces]; forces are in units of 1/100000.
PushLettersUpwards1(st, currentScrollY) ==
  [prev |-> PreviousAfter(st.prev, currentScrollY),
   forces |-> IF currentScrollY > st.prev
              THEN ApplyToAll(st.forces, Force(0, -(forceFactor1 * (currentScrollY - st.prev))))
              ELSE st.forces]

\* pushLettersUpwards of the second definition (lines 618-625)
PushLettersUpwards2(st, currentScrollY) ==
  [prev |-> st.prev,
   forces |-> ApplyToAll(st.forces, Force(0, -(forceFactor2 * currentScrollY)))]

\* A scroll event with window.scrollY now y.  The first definition has two
\* listeners (lines 320 and 323), each calling pushLettersUpwards; the second
\* has one (line 628).
Scroll(y) ==
  /\ lastScroll.events < MaxScrollEvents
  /\ scrollY' = y
  /\ lastScroll' = [from |-> scrollY, to |-> y, events |-> lastScroll.events + 1]
  /\ LET st0 == [prev |-> previousScrollY, forces |-> [b \in world |-> <<>>]]
         st == IF version = 1
               THEN PushLettersUpwards1(PushLettersUpwards1(st0, y), y)
               ELSE PushLettersUpwards2(st0, y)
     IN  /\ previousScrollY' = st.prev
         /\ forces' = st.forces
  /\ UNCHANGED <<version, returnedPosition, innerWidth, loadVars, startVars, tickVars, world,
                 boundaryVars, wheelVars>>

\* ----------------------------------------------------------- handleScroll
\* the pending timeout is not cleared
ClearTimeoutSkipped(pending, id) == pending

\* clearTimeout(scrollTimeout)
ClearTimeout(pending, id) == {t \in pending : t.id # id}

\* handleScroll (lines 210-216, 519-525), the canvas' wheel listener
HandleScroll ==
  /\ nextTimerId <= MaxWheelEvents
  /\ now + restoreDelay <= MaxClock
  /\ pointerEvents' = "none"
  /\ timeouts' = ClearTimeout(timeouts, scrollTimeout)
                   \cup {[id |-> nextTimerId, due |-> now + restoreDelay]}
  /\ scrollTimeout' = nextTimerId
  /\ nextTimerId' = nextTimerId + 1
  /\ lastWheelAt' = now
  /\ UNCHANGED <<now, version, returnedPosition, innerWidth, loadVars, startVars, tickVars, world,
                 boundaryVars, scrollVars>>

\* the callback of a timeout that is due runs (lines 213-215)
RestorePointerEvents ==
  /\ \E t \in timeouts :
       /\ now >= t.due
       /\ timeouts' = timeouts \ {t}
  /\ pointerEvents' = "auto"
  /\ UNCHANGED <<scrollTimeout, nextTimerId, now, lastWheelAt, version, returnedPosition, innerWidth,
                 loadVars, startVars, tickVars, world, boundaryVars, scrollVars>>

\* time passes
Advance ==
  /\ now + ClockStep <= MaxClock
  /\ now' = now + ClockStep
  /\ UNCHANGED <<pointerEvents, scrollTimeout, timeouts, nextTimerId, lastWheelAt,
                 version, returnedPosition, innerWidth, loadVars, startVars, tickVars, world,
                 boundaryVars, scrollVars>>

\* ------------------------------------------------------------------ Spec
LoadSvg ==
  \/ \E p \in Paths, out \in Outcomes(1) : LoadSvg1(p, out)
  \/ \E l \in Loads(2), p \in Paths, out \in Outcomes(2) : LoadSvg2(l, p, out)

Next ==
  \/ LoadSvg
  \/ SpawnLetter1
  \/ SpawnLetter2

Spec == Init /\ [][Next]_vars

\* The first definition alone, its interval firing fairly.
Init1 == Init /\ version = 1

Next1 ==
  \/ \E p \in Paths, out \in Outcomes(1) : LoadSvg1(p, out)
  \/ SpawnLetter1

FairSpec1 == Init1 /\ [][Next1]_vars /\ WF_vars(SpawnLetter1)

\* The interval's first MaxLetters letters
FirstLetters == lettersSpawnedCount < MaxLetters /\ (SpawnLetter1 \/ SpawnLetter2)

\* Loading, the first letters and resize events
NextResize ==
  \/ LoadSvg
  \/ FirstLetters
  \/ \E w \in Widths : Resize(w)

SpecResize == Init /\ [][NextResize]_vars

\* Loading, the first letters and scroll events
NextScroll ==
  \/ LoadSvg
  \/ FirstLetters
  \/ \E y \in 0..MaxScrollY : Scroll(y)

SpecScroll == Init /\ [][NextScroll]_vars

\* Wheel events on the canvas, the clock and the timeouts
NextWheel ==
  \/ HandleScroll
  \/ RestorePointerEvents
  \/ Advance

FairSpecWheel ==
  Init /\ [][NextWheel]_vars /\ WF_vars(RestorePointerEvents) /\ WF_vars(Advance)

\* ---------------------------------------------- getUniquePosition alone
\* the viewport widths spawnLetters is run with
PositionWidths == {ViewportWidth + k * gridSize : k \in 0..MaxWidthSteps}

\* The state when spawnLetters has returned, for a window of width w: every
\* load has fulfilled and called spawnLetters, and the first call has created
\* the interval and read viewportWidth.
InitPosition ==
  /\ version \in Versions
  /\ innerWidth \in PositionWidths
  /\ viewportWidth = innerWidth
  /\ fetchState = [l \in Loads(version) |-> [p \in Paths |-> "ok"]]
  /\ loadState = [l \in Loads(version) |-> "fulfilled"]
  /\ spawnCalled = [l \in Loads(version) |-> TRUE]
  /\ loadedVertexSets =
       [i \in 1..(Len(svgPaths) * Cardinality(Loads(version))) |->
          [path |-> svgPaths[((i - 1) % Len(svgPaths)) + 1], valid |-> TRUE]]
  /\ lettersSpawned = TRUE
  /\ intervalState = "active"
  /\ intervalsCreated = 1
  /\ spawnInterval \in IF version = 1 THEN {spawnInterval1}
                       ELSE {SpawnIntervalOf(l) : l \in Loads(2)}
  /\ occupiedGridCells = {}
  /\ lettersSpawnedCount = 0
  /\ returnedGridCells = {}
  /\ gridRepeat = FALSE
  /\ cellRepeat = FALSE
  /\ lastTick = [result |-> "none", overlap |-> "unchecked"]
  /\ boundaryCalls = 1
  /\ ground = Body("ground", 1)
  /\ leftWall = Body("leftWall", 1)
  /\ rightWall = Body("rightWall", 1)
  /\ topBox = Body("topBox", 1)
  /\ world = {Body(k, 1) : k \in BoundaryKinds}
  /\ scrollY = 0
  /\ previousScrollY = 0
  /\ lastScroll = [from |-> 0, to |-> 0, events |-> 0]
  /\ forces = [b \in {} |-> <<>>]
  /\ pointerEvents = ""
  /\ scrollTimeout = 0
  /\ timeouts = {}
  /\ nextTimerId = 1
  /\ now = 0
  /\ lastWheelAt = -1
  /\ returnedPosition = NoPosition

\* One call of getUniquePosition (lines 108-137, 444-473) in the closure of
\* spawnLetters, its result kept in returnedPosition.
GetUniquePositionCall ==
  /\ intervalState = "active"
  /\ \E o \in GetUniquePosition(version, viewportWidth, occupiedGridCells) :
       /\ SetLoopState(AfterCall(LoopState, o))
       /\ returnedPosition' = [x |-> o.pos.x, y |-> o.pos.y,
                               branch |-> IF o.grid THEN "grid" ELSE "default"]
  /\ UNCHANGED <<version, innerWidth, loadVars, startVars, intervalState,
                 lettersSpawnedCount, lastTick, world, boundaryVars, scrollVars,
                 wheelVars>>

SpecPosition == InitPosition /\ [][GetUniquePositionCall]_vars

\* ================================================================ claims

\* C1: in every reachable state lettersSpawnedCount is at most totalLetters
\* (200) and the number of letter bodies in the world equals
\* lettersSpawnedCount.
C1_SpawnCeiling ==
  /\ lettersSpawnedCount <= TotalLetters
  /\ Cardinality(Letters(world)) = lettersSpawnedCount

\* the ceiling is reached in the second definition, spawnLetters called twice
C1_Witness ==
  /\ version = 2
  /\ \A l \in Loads(2) : spawnCalled[l]
  /\ lettersSpawnedCount = TotalLetters
  /\ Cardinality(Letters(world)) = TotalLetters

\* C2 as stated: within one run of spawnLetters no call of getUniquePosition,
\* default branch included, returns a position in a grid cell in which an
\* earlier call returned one.  (cellRepeat records the repeats of cells that
\* the grid branch returned earlier.)
C2_NoCellTwice == ~cellRepeat

\* C2 as amended: no two calls of getUniquePosition that return from the grid
\* branch return positions in the same grid cell, and the cells they returned
\* are the occupied ones; a default-branch return is not kept apart.
C2_GridBranchUnique ==
  /\ ~gridRepeat
  /\ returnedGridCells = occupiedGridCells

\* two grid-branch returns in distinct cells, and a default return in one of them
C2_Witness ==
  /\ Cardinality(returnedGridCells) >= 2
  /\ cellRepeat

\* C3: in the first definition a step adds a letter body only if doesOverlap
\* found the body free of collisions, and a tick whose last candidate (the
\* maxAttempts-th) still collides adds no body and leaves lettersSpawnedCount.
C3_AddOnlyIfFree ==
  [][version = 1 =>
       /\ (Letters(world') # Letters(world) => lastTick'.overlap = "free")
       /\ (lastTick'.overlap = "collides" =>
             /\ world' = world
             /\ lettersSpawnedCount' = lettersSpawnedCount)]_vars

\* a tick of the first definition found no free candidate after letters were added
C3_Witness ==
  /\ version = 1
  /\ lastTick.result = "skipped"
  /\ lettersSpawnedCount >= 1

\* C4 as stated: loadedVertexSets holds at most one entry per asset path.
C4_LoadedOnce ==
  /\ Len(loadedVertexSets) <= Len(svgPaths)
  /\ \A p \in Paths :
       Cardinality({i \in 1..Len(loadedVertexSets) : loadedVertexSets[i].path = p}) <= 1

\* C5 as stated: once spawnLetters(200, 25) has started the interval, under
\* fair firing of the interval the count reaches totalLetters and the interval
\* is cleared.
C5_EventuallyAllSpawned ==
  (intervalState = "active") ~>
     (lettersSpawnedCount = TotalLetters /\ intervalState = "cleared")

\* C6: letters exist, and the interval exists, only when some load has
\* fulfilled with its three fetches resolved and has called spawnLetters; a
\* load with a non-ok response is rejected and never calls spawnLetters.
C6_SpawnOnlyAfterLoad ==
  /\ (Letters(world) # {} \/ intervalState # "none") =>
       \E l \in Loads(version) :
         /\ loadState[l] = "fulfilled"
         /\ spawnCalled[l]
         /\ \A p \in Paths : fetchState[l][p] \in {"ok", "empty"}
  /\ \A l \in Loads(version) :
       /\ (\E p \in Paths : fetchState[l][p] = "notok") =>
            (loadState[l] = "rejected" /\ ~spawnCalled[l])
       /\ spawnCalled[l] => loadState[l] = "fulfilled"

\* letters spawned by one load while another load was rejected
C6_Witness ==
  /\ Letters(world) # {}
  /\ \E l \in Loads(version) : loadState[l] = "rejected" /\ ~spawnCalled[l]

\* C9: at most one spawn interval is ever created.
C9_OneInterval ==
  /\ intervalsCreated <= 1
  /\ lettersSpawned <=> intervalsCreated = 1

\* both loads of the second definition have called spawnLetters
C9_Witness ==
  /\ version = 2
  /\ \A l \in Loads(2) : spawnCalled[l]
  /\ intervalsCreated = 1

C8_FourBoundaries ==
  /\ [](/\ Boundaries(world) = {ground, leftWall, rightWall, topBox}
        /\ Boundaries(world) = {Body(k, boundaryCalls) : k \in BoundaryKinds}
        /\ Cardinality(Boundaries(world)) = 4)
  /\ [][Letters(world) \subseteq Letters(world')]_vars

\* the resize listener has run MaxResizes times with letters in the world
C8_Witness ==
  /\ boundaryCalls = MaxResizes + 1
  /\ Cardinality(Letters(world)) = MaxLetters

\* C10: at most one restore timeout is pending, it is the one handleScroll set
\* last, and pointerEvents is "none" while it is pending; pointerEvents turns
\* "auto" only in a step that runs that timeout no sooner than restoreDelay
\* (200 ms) after the latest wheel event; and when the wheel events have
\* stopped, "none" leads to "auto".
C10_RestoreAfterWheel ==
  /\ [](/\ Cardinality(timeouts) <= 1
        /\ timeouts # {} =>
             /\ pointerEvents = "none"
             /\ \A t \in timeouts : t.id = scrollTimeout)
  /\ [][(pointerEvents' = "auto" /\ pointerEvents # "auto") =>
          /\ lastWheelAt >= 0
          /\ now >= lastWheelAt + restoreDelay
          /\ timeouts = {[id |-> scrollTimeout, due |-> lastWheelAt + restoreDelay]}
          /\ timeouts' = {}
          /\ lastWheelAt' = lastWheelAt]_vars
  /\ ((pointerEvents = "none") ~> (pointerEvents = "auto"))

\* pointerEvents restored after a wheel event had replaced a pending timeout
C10_Witness ==
  /\ pointerEvents = "auto"
  /\ timeouts = {}
  /\ scrollTimeout >= 2

\* C11 as stated: every position getUniquePosition returns, from either
\* branch, has 0.4 * viewportWidth <= x <= viewportWidth and y < 0.
\* (returnedPosition is over the denominator Scale.)
C11_InSpawnArea ==
  returnedPosition.branch # "none" =>
    /\ 2 * viewportWidth * RandDenom <= returnedPosition.x
    /\ returnedPosition.x <= viewportWidth * Scale
    /\ returnedPosition.y < 0

\* the part of C11 the first definition breaks: x is not below 0.4 * viewportWidth
C11_NotLeftOfArea ==
  (version = 1 /\ returnedPosition.branch # "none") =>
    2 * viewportWidth * RandDenom <= returnedPosition.x

\* the part of C11 the second definition breaks: y is above the viewport
C11_AboveViewport ==
  (version = 2 /\ returnedPosition.branch # "none") => returnedPosition.y < 0

====
